---- MODULE Spec2Model ----
(***************************************************************************)
(* State-machine model of spacex-dash-app.py: the module-level start-up    *)
(* (read_csv, dropna, summary statistics, layout) and the two Dash         *)
(* callbacks get_pie_chart and get_scatter_chart.                          *)
(*                                                                         *)
(* A data frame is a record [columns, rows]; a row is a function from the  *)
(* frame's column names to cells.  A cell is <<v>> for a value v and <<>>  *)
(* for a missing value (pandas NaN).                                       *)
(***************************************************************************)
EXTENDS Integers, Sequences, FiniteSets, TLC

VARIABLES
    csv,          \* the source file "spacex_launch_dash.csv" as found on disk
    pc,           \* position of the process: "import", "loaded", "serving", "exited"
    spacex_df,    \* module-level data frame
    min_payload,  \* module-level summary statistics (cells)
    max_payload,
    launch_sites, \* module-level list of distinct launch sites
    layout,       \* initial properties of the dropdown and the range slider
    call,         \* the last callback invocation and its arguments
    figure        \* what the last callback invocation returned (or that it raised)

vars == <<csv, pc, spacex_df, min_payload, max_payload, launch_sites, layout, call, figure>>

-----------------------------------------------------------------------------
(* Bounds and input domains *)

MaxRows == 2

SiteCol    == "Launch Site"
PayloadCol == "Payload Mass (kg)"
ClassCol   == "class"
BoosterCol == "Booster Version Category"

AllColumns == {SiteCol, PayloadCol, ClassCol, BoosterCol}

NaN == <<>>
Cell(v) == <<v>>
Val(c) == c[1]

SiteNames    == {"CCAFS", "KSC"}
PayloadVals  == {500, 2500}
ClassVals    == {0, 1}
BoosterVals  == {"v1"}

\* values a callback can be invoked with
SiteInputs  == {"ALL", "KSC", "VAFB"}
RangeBounds == {0, 500, 2500}
RangeInputs == RangeBounds \X RangeBounds

WithNaN(S) == {Cell(v) : v \in S} \cup {NaN}

\* the rows a file with the columns cs can hold: at most one cell of a row is missing
RowsOver(cs) ==
    { r \in { [c \in cs |-> CASE c = SiteCol    -> s
                             [] c = PayloadCol -> p
                             [] c = ClassCol   -> k
                             [] c = BoosterCol -> b] :
                s \in WithNaN(SiteNames), p \in WithNaN(PayloadVals),
                k \in WithNaN(ClassVals), b \in {Cell(v) : v \in BoosterVals} } :
        Cardinality({c \in cs : r[c] = NaN}) <= 1 }

SeqsUpTo(S, n) == UNION { [1..m -> S] : m \in 0..n }

\* a file that is missing or cannot be parsed
Unreadable == [readable |-> FALSE, columns |-> {}, rows |-> <<>>]

\* the files the program may find: unreadable, with the four columns and up to
\* MaxRows rows, or with one column missing and at most one row
Files ==
    {Unreadable} \cup
    { [readable |-> TRUE, columns |-> AllColumns, rows |-> rs] :
        rs \in SeqsUpTo(RowsOver(AllColumns), MaxRows) } \cup
    UNION { { [readable |-> TRUE, columns |-> AllColumns \ {c}, rows |-> rs] :
                rs \in SeqsUpTo(RowsOver(AllColumns \ {c}), 1) } : c \in AllColumns }

EmptyFrame == [columns |-> {}, rows |-> <<>>]
NoCall     == [fn |-> "none"]
NoFigure   == [kind |-> "none"]
NoLayout   == [options |-> <<>>, value |-> "", slider |-> <<>>]

-----------------------------------------------------------------------------
(* pandas operations used by the program *)

\* pd.read_csv: the parsed table, or an exception
read_csv(f) ==
    IF f.readable
    THEN [raised |-> FALSE, df |-> [columns |-> f.columns, rows |-> f.rows]]
    ELSE [raised |-> TRUE,  df |-> EmptyFrame]

\* mutant: 'class' left out of the subset
dropna_without_class(df, subset) ==
    IF ~(subset \subseteq df.columns)
    THEN [raised |-> TRUE, df |-> df]
    ELSE [raised |-> FALSE,
          df |-> [df EXCEPT !.rows =
                    SelectSeq(df.rows,
                              LAMBDA r : \A c \in subset \ {ClassCol} : r[c] # NaN)]]

\* DataFrame.dropna(subset=...): KeyError when a label of subset is no column,
\* else the rows with no missing cell in the subset, in their order
dropna(df, subset) ==
    IF ~(subset \subseteq df.columns)
    THEN [raised |-> TRUE, df |-> df]
    ELSE [raised |-> FALSE,
          df |-> [df EXCEPT !.rows =
                    SelectSeq(df.rows, LAMBDA r : \A c \in subset : r[c] # NaN)]]

\* mutant: max_payload taken with .min()
SeriesMax_as_min(df, col) ==
    LET xs == {Val(df.rows[i][col]) : i \in {j \in DOMAIN df.rows : df.rows[j][col] # NaN}}
    IN  IF xs = {} THEN NaN
        ELSE Cell(CHOOSE x \in xs : \A y \in xs : x <= y)

\* the values of a column, missing cells skipped
Present(df, col) ==
    {Val(df.rows[i][col]) : i \in {j \in DOMAIN df.rows : df.rows[j][col] # NaN}}

\* Series.max() / Series.min(): missing cells are skipped; NaN when no value is left
SeriesMax(df, col) ==
    IF Present(df, col) = {} THEN NaN
    ELSE Cell(CHOOSE x \in Present(df, col) : \A y \in Present(df, col) : y <= x)

SeriesMin(df, col) ==
    IF Present(df, col) = {} THEN NaN
    ELSE Cell(CHOOSE x \in Present(df, col) : \A y \in Present(df, col) : x <= y)

\* mutant: the distinct values in reverse order of first appearance
RECURSIVE UniqueList_reversed(_, _)
UniqueList_reversed(rows, col) ==
    IF rows = <<>> THEN <<>>
    ELSE LET init == UniqueList_reversed(SubSeq(rows, 1, Len(rows) - 1), col)
             v    == Val(rows[Len(rows)][col])
         IN  IF \E i \in DOMAIN init : init[i] = v THEN init ELSE <<v>> \o init

\* Series.unique().tolist(): the values in order of first appearance
RECURSIVE UniqueList(_, _)
UniqueList(rows, col) ==
    IF rows = <<>> THEN <<>>
    ELSE LET init == UniqueList(SubSeq(rows, 1, Len(rows) - 1), col)
             v    == Val(rows[Len(rows)][col])
         IN  IF \E i \in DOMAIN init : init[i] = v THEN init ELSE Append(init, v)

\* mutant: the selection falls back to the whole frame when no row matches
WhereEq_or_all(df, col, value) ==
    IF \E i \in DOMAIN df.rows : df.rows[i][col] = Cell(value)
    THEN [df EXCEPT !.rows = SelectSeq(df.rows, LAMBDA r : r[col] = Cell(value))]
    ELSE df

\* df[df[col] == value]
WhereEq(df, col, value) ==
    [df EXCEPT !.rows = SelectSeq(df.rows, LAMBDA r : r[col] = Cell(value))]

\* mutant: the upper bound taken exclusive
WhereBetween_exclusive(df, col, low, high) ==
    [df EXCEPT !.rows =
        SelectSeq(df.rows, LAMBDA r : Val(r[col]) >= low /\ Val(r[col]) < high)]

\* df[(df[col] >= low) & (df[col] <= high)]
WhereBetween(df, col, low, high) ==
    [df EXCEPT !.rows =
        SelectSeq(df.rows, LAMBDA r : Val(r[col]) >= low /\ Val(r[col]) <= high)]

-----------------------------------------------------------------------------
(* plotly express *)

\* mutant: a slice for every class, with a zero count for an absent one
px_pie_zero_slices(df, title) ==
    [kind   |-> "pie",
     title  |-> title,
     counts |-> [k \in ClassVals |->
                   Cardinality({i \in DOMAIN df.rows : df.rows[i][ClassCol] = Cell(k)})]]

\* px.pie(df, names='class'): one slice per value of the column that occurs,
\* sized by the number of rows that have it
px_pie(df, title) ==
    LET present == {Val(df.rows[i][ClassCol]) : i \in DOMAIN df.rows}
    IN  [kind   |-> "pie",
         title  |-> title,
         counts |-> [k \in present |->
                       Cardinality({i \in DOMAIN df.rows : df.rows[i][ClassCol] = Cell(k)})]]

\* px.scatter(df, x=..., y=..., color='Booster Version Category'): ValueError
\* when an argument names no column of df, else one point per row
px_scatter(df, title) ==
    IF ~({PayloadCol, ClassCol, BoosterCol} \subseteq df.columns)
    THEN [kind |-> "raised"]
    ELSE [kind   |-> "scatter",
          title  |-> title,
          points |-> df.rows]

-----------------------------------------------------------------------------
(* The program *)

Init ==
    /\ csv \in Files
    /\ pc = "import"
    /\ spacex_df = EmptyFrame
    /\ min_payload = NaN
    /\ max_payload = NaN
    /\ launch_sites = <<>>
    /\ layout = NoLayout
    /\ call = NoCall
    /\ figure = NoFigure

\* lines 13-18: read the file; an exception is logged and re-raised
LoadCsv ==
    /\ pc = "import"
    /\ LET r == read_csv(csv)
       IN  IF r.raised
           THEN /\ pc' = "exited"
                /\ UNCHANGED spacex_df
           ELSE /\ pc' = "loaded"
                /\ spacex_df' = r.df
    /\ UNCHANGED <<csv, min_payload, max_payload, launch_sites, layout, call, figure>>

\* lines 21-72 and 140-142: clean, summary statistics, layout, app.run
BuildApp ==
    /\ pc = "loaded"
    /\ LET r == dropna(spacex_df, {PayloadCol, SiteCol, ClassCol})
       IN  IF r.raised
           THEN /\ pc' = "exited"
                /\ UNCHANGED <<spacex_df, min_payload, max_payload, launch_sites, layout>>
           ELSE /\ spacex_df' = r.df
                /\ max_payload' = SeriesMax(r.df, PayloadCol)
                /\ min_payload' = SeriesMin(r.df, PayloadCol)
                /\ launch_sites' = UniqueList(r.df.rows, SiteCol)
                /\ layout' = [options |-> <<"ALL">> \o launch_sites',
                              value   |-> "ALL",
                              slider  |-> <<min_payload', max_payload'>>]
                /\ pc' = "serving"
    /\ UNCHANGED <<csv, call, figure>>

\* mutant: the "ALL" branch keeps the successful launches only
pie_figure_success_only(df, entered_site) ==
    IF entered_site = "ALL"
    THEN px_pie(WhereEq(df, ClassCol, 1), "ALL")
    ELSE px_pie(WhereEq(df, SiteCol, entered_site), entered_site)

\* lines 81-99: the figure get_pie_chart builds from the data frame
pie_figure(df, entered_site) ==
    IF entered_site = "ALL"
    THEN px_pie(df, "ALL")
    ELSE px_pie(WhereEq(df, SiteCol, entered_site), entered_site)

\* mutant: the site branch plots filtered_df instead of site_df
scatter_figure_no_site_filter(df, selected_site, payload_range) ==
    LET low         == payload_range[1]
        high        == payload_range[2]
        filtered_df == WhereBetween(df, PayloadCol, low, high)
    IN  px_scatter(filtered_df, selected_site)

\* lines 112-137: the figure get_scatter_chart builds from the data frame
scatter_figure(df, selected_site, payload_range) ==
    LET low         == payload_range[1]
        high        == payload_range[2]
        filtered_df == WhereBetween(df, PayloadCol, low, high)
    IN  IF selected_site = "ALL"
        THEN px_scatter(filtered_df, "ALL")
        ELSE px_scatter(WhereEq(filtered_df, SiteCol, selected_site), selected_site)

\* mutant: the callback narrows the module-level frame in place
get_pie_chart_in_place(entered_site) ==
    /\ pc = "serving"
    /\ call' = [fn |-> "get_pie_chart", site |-> entered_site]
    /\ figure' = pie_figure(spacex_df, entered_site)
    /\ spacex_df' = IF entered_site = "ALL" THEN spacex_df
                    ELSE WhereEq(spacex_df, SiteCol, entered_site)
    /\ UNCHANGED <<csv, pc, min_payload, max_payload, launch_sites, layout>>

\* lines 75-99: the callback reads spacex_df and returns the figure
get_pie_chart(entered_site) ==
    /\ pc = "serving"
    /\ call' = [fn |-> "get_pie_chart", site |-> entered_site]
    /\ figure' = pie_figure(spacex_df, entered_site)
    /\ UNCHANGED <<csv, pc, spacex_df, min_payload, max_payload, launch_sites, layout>>

\* lines 102-137: the callback reads spacex_df and returns the figure
get_scatter_chart(selected_site, payload_range) ==
    /\ pc = "serving"
    /\ call' = [fn |-> "get_scatter_chart", site |-> selected_site, range |-> payload_range]
    /\ figure' = scatter_figure(spacex_df, selected_site, payload_range)
    /\ UNCHANGED <<csv, pc, spacex_df, min_payload, max_payload, launch_sites, layout>>

PieRequest == \E s \in SiteInputs : get_pie_chart(s)

ScatterRequest == \E s \in SiteInputs : \E r \in RangeInputs : get_scatter_chart(s, r)

Next == LoadCsv \/ BuildApp \/ PieRequest \/ ScatterRequest

Spec == Init /\ [][Next]_vars

-----------------------------------------------------------------------------
(* Vocabulary of the properties *)

\* the subsequence of seq at the positions keep, in increasing position
SubSeqAt(seq, keep) ==
    [k \in 1..Cardinality(keep) |->
        seq[CHOOSE i \in keep : Cardinality({j \in keep : j <= i}) = k]]

RECURSIVE SumOver(_, _)
SumOver(f, S) ==
    IF S = {} THEN 0
    ELSE LET x == CHOOSE y \in S : TRUE IN f[x] + SumOver(f, S \ {x})

Records == spacex_df.rows

DistinctSites == {Val(Records[i][SiteCol]) : i \in DOMAIN Records}

\* positions of the records a site selection selects
SiteMatches(site) ==
    {i \in DOMAIN Records : site = "ALL" \/ Val(Records[i][SiteCol]) = site}

\* positions of the records whose payload mass lies in [low, high]
InRange(low, high) ==
    {i \in DOMAIN Records :
        low <= Val(Records[i][PayloadCol]) /\ Val(Records[i][PayloadCol]) <= high}

\* the cleaned table holds LaunchRecords: all four fields
IsDataset == AllColumns \subseteq spacex_df.columns

PieCalled     == pc = "serving" /\ call.fn = "get_pie_chart"
ScatterCalled == pc = "serving" /\ call.fn = "get_scatter_chart"

-----------------------------------------------------------------------------
(* Properties *)

\* C1: for a site in {"ALL"} \cup distinctSites, the counts of the pie sum to the
\* number of records of that site, or to the number of all records for "ALL"
C1_PieCountsSum ==
    (PieCalled /\ call.site \in {"ALL"} \cup DistinctSites) =>
        /\ figure.kind = "pie"
        /\ SumOver(figure.counts, DOMAIN figure.counts) =
             IF call.site = "ALL" THEN Len(Records)
             ELSE Cardinality({i \in DOMAIN Records : Records[i][SiteCol] = Cell(call.site)})

C1_Witness ==
    /\ PieCalled
    /\ call.site = "KSC"
    /\ "KSC" \in DistinctSites
    /\ "CCAFS" \in DistinctSites
    /\ DOMAIN figure.counts # {}

\* C2: the scatter plots exactly the records with low <= payloadMassKg <= high
\* and (site = "ALL" or launchSite = site), each once, in their order in the Dataset
C2_ScatterExactSubsequence ==
    (ScatterCalled /\ IsDataset) =>
        /\ figure.kind = "scatter"
        /\ figure.points =
             SubSeqAt(Records, InRange(call.range[1], call.range[2]) \cap SiteMatches(call.site))

C2_Witness ==
    /\ ScatterCalled
    /\ IsDataset
    /\ call.site = "KSC"
    /\ Len(Records) = 2
    /\ Len(figure.points) = 1
    /\ figure.points[1] = Records[2]

\* C3: low = high plots exactly the selected records with that payload mass;
\* low > high plots no record and is a normal result, for every site selection
C3_RangeBoundaries ==
    (ScatterCalled /\ IsDataset) =>
        /\ call.range[1] = call.range[2] =>
             /\ figure.kind = "scatter"
             /\ figure.points =
                  SubSeqAt(Records,
                           {i \in SiteMatches(call.site) :
                               Val(Records[i][PayloadCol]) = call.range[1]})
        /\ call.range[1] > call.range[2] =>
             /\ figure.kind = "scatter"
             /\ figure.points = <<>>

C3_Witness ==
    /\ ScatterCalled
    /\ IsDataset
    /\ call.range[1] = call.range[2]
    /\ Len(Records) = 2
    /\ Len(figure.points) = 1

\* C4: a site outside {"ALL"} \cup distinctSites completes without raising,
\* with an empty pie mapping or an empty scatter sequence
C4_UnknownSiteEmpty ==
    (pc = "serving" /\ call.fn # "none" /\ call.site \notin {"ALL"} \cup DistinctSites) =>
        /\ call.fn = "get_pie_chart" =>
             (figure.kind = "pie" /\ DOMAIN figure.counts = {})
        /\ (call.fn = "get_scatter_chart" /\ IsDataset) =>
             (figure.kind = "scatter" /\ figure.points = <<>>)

C4_Witness ==
    /\ ScatterCalled
    /\ IsDataset
    /\ call.site = "VAFB"
    /\ InRange(call.range[1], call.range[2]) # {}
    /\ figure.kind = "scatter"

\* C5: the pie mapping has class c iff a selected record has outcomeClass c, with
\* the number of such records as its count; an absent class is omitted
C5_PieClassesPresent ==
    PieCalled =>
        /\ figure.kind = "pie"
        /\ \A c \in ClassVals :
             LET n == Cardinality({i \in SiteMatches(call.site) :
                                      Records[i][ClassCol] = Cell(c)})
             IN  /\ c \in DOMAIN figure.counts <=> n > 0
                 /\ c \in DOMAIN figure.counts => figure.counts[c] = n
        /\ DOMAIN figure.counts \subseteq ClassVals

C5_Witness ==
    /\ PieCalled
    /\ SiteMatches(call.site) # {}
    /\ DOMAIN figure.counts = {1}

\* C6: a callback changes neither the Dataset nor anything else a later call
\* reads, and what it returns is determined by the Dataset and its arguments:
\* the same call made again, after any other calls, returns the same figure
C6_CallsArePure ==
    [][pc = "serving" =>
         /\ spacex_df' = spacex_df
         /\ <<min_payload', max_payload', launch_sites', layout', csv'>> =
              <<min_payload, max_payload, launch_sites, layout, csv>>
         /\ call'.fn = "get_pie_chart" =>
              figure' = pie_figure(spacex_df', call'.site)
         /\ call'.fn = "get_scatter_chart" =>
              figure' = scatter_figure(spacex_df', call'.site, call'.range)]_vars

C6_Witness ==
    /\ ScatterCalled
    /\ IsDataset
    /\ figure.kind = "scatter"
    /\ Len(figure.points) = 1
    /\ Len(Records) = 2
    /\ pie_figure(spacex_df, "ALL").counts = (0 :> 1 @@ 1 :> 1)

\* C7: once cleaned, no record misses payloadMassKg, launchSite or outcomeClass,
\* and the Dataset is the file's rows without exactly the rows that miss one of them
C7_CleanedDataset ==
    pc = "serving" =>
        /\ \A i \in DOMAIN Records :
             \A c \in {PayloadCol, SiteCol, ClassCol} : Records[i][c] # NaN
        /\ Records =
             SubSeqAt(csv.rows,
                      {i \in DOMAIN csv.rows :
                          /\ csv.rows[i][PayloadCol] # NaN
                          /\ csv.rows[i][SiteCol] # NaN
                          /\ csv.rows[i][ClassCol] # NaN})

C7_Witness ==
    /\ pc = "serving"
    /\ call.fn # "none"
    /\ Len(csv.rows) = 2
    /\ csv.rows[1][ClassCol] = NaN
    /\ Records = <<csv.rows[2]>>

\* C8: a source file that is missing, unreadable or lacks a required column never
\* lets the process reach the state in which the callbacks serve requests
C8_BadSourceNeverServes ==
    (~csv.readable \/ ~(AllColumns \subseteq csv.columns)) =>
        (pc # "serving" /\ call = NoCall)

\* C9: the site selector offers "ALL" and then each distinct launch site of the
\* cleaned Dataset once, in first-seen order, with default "ALL"; the payload
\* range defaults to the minimum and maximum payload mass of the cleaned Dataset
C9_ControlDefaults ==
    pc = "serving" =>
        LET opts        == layout.options
            FirstAt(v)  == CHOOSE i \in DOMAIN Records :
                              /\ Val(Records[i][SiteCol]) = v
                              /\ \A j \in 1..(i - 1) : Val(Records[j][SiteCol]) # v
            payloads    == {Val(Records[i][PayloadCol]) : i \in DOMAIN Records}
        IN  /\ Len(opts) = 1 + Cardinality(DistinctSites)
            /\ opts[1] = "ALL"
            /\ {opts[k] : k \in 2..Len(opts)} = DistinctSites
            /\ \A k, m \in 2..Len(opts) : k < m => FirstAt(opts[k]) < FirstAt(opts[m])
            /\ layout.value = "ALL"
            /\ Records # <<>> =>
                 /\ Val(layout.slider[1]) \in payloads
                 /\ Val(layout.slider[2]) \in payloads
                 /\ \A x \in payloads : Val(layout.slider[1]) <= x /\ x <= Val(layout.slider[2])

C9_Witness ==
    /\ pc = "serving"
    /\ layout.options = <<"ALL", "KSC", "CCAFS">>
    /\ layout.slider = <<Cell(500), Cell(2500)>>

\* C10: with site "ALL" and the default range [minPayload, maxPayload] the
\* scatter plots every record of a non-empty cleaned Dataset
C10_DefaultRangePlotsAll ==
    (/\ ScatterCalled
     /\ IsDataset
     /\ Records # <<>>
     /\ call.site = layout.value
     /\ call.range = <<Val(layout.slider[1]), Val(layout.slider[2])>>) =>
        /\ figure.kind = "scatter"
        /\ figure.points = Records

C10_Witness ==
    /\ ScatterCalled
    /\ IsDataset
    /\ Len(Records) = 2
    /\ Records[1][PayloadCol] # Records[2][PayloadCol]
    /\ call.site = layout.value
    /\ call.range = <<Val(layout.slider[1]), Val(layout.slider[2])>>
    /\ figure.kind = "scatter"

====
